---------------------------- MODULE Spec2Model ----------------------------
(***************************************************************************)
(* Model of the speech-emotion pipeline of src/model.ipynb.                *)
(*                                                                         *)
(* The notebook file holds two programs that hand over through two array   *)
(* files: the feature-extraction cells (metadata scan, extract_mfcc,       *)
(* dataset build loop) and the training script (load_data, split_data,     *)
(* build_model, evaluate_model, main).  Each part is a state machine with  *)
(* its own specification over the shared variables below:                  *)
(*   SpecScan   the metadata scan over the root directories                *)
(*   SpecMfcc   extract_mfcc applied to one recording                      *)
(*   SpecBuild  the dataset build loop and the two np.save calls           *)
(*   SpecEval   label encoding (load_data) followed by evaluate_model      *)
(*   SpecMain   main(), stage by stage                                     *)
(* A variable a part does not use keeps its idle value in that part.       *)
(*                                                                         *)
(* Strings the code takes apart (file names) are sequences of one-         *)
(* character strings, so that split, endswith and int are computed.        *)
(***************************************************************************)
EXTENDS Integers, Sequences, FiniteSets, TLC

VARIABLES
    \* ---- metadata scan
    scan_pc,        \* "walk" | "done" | "raised" (uncaught ValueError)
    root_exists,    \* root index -> BOOLEAN: is the root a directory
    ri,             \* index in root_dirs of the root being walked
    visited,        \* the <<root, file>> pairs os.walk has yielded so far
    metadata        \* the list `metadata`

VARIABLES
    \* ---- extract_mfcc on one recording
    mfcc_pc,        \* "call" | "returned"
    audio,          \* the recording at `filepath`
    mfcc_out,       \* what extract_mfcc returned
    mfcc_printed    \* the lines extract_mfcc printed

VARIABLES
    \* ---- dataset build loop
    build_pc,       \* "loop" | "saved"
    df,             \* the metadata table the loop iterates
    bi,             \* index of the row the next iteration takes
    disk,           \* the recordings read for rows 1..bi-1, in row order
    X,              \* the list X of matrices
    y,              \* the list y of labels
    file_X,         \* X_mfcc.npy: [written, data]
    file_y,         \* y_labels.npy: [written, data]
    diag            \* the file paths named by the "Error processing" lines

VARIABLES
    \* ---- training script
    eval_pc,        \* load_data then evaluate_model on their own:
                    \* "load" | "evaluate" | "evaluated" | "raised"
    main_pc,        \* main(): the stage about to run | "finished" | "halted"
    stages,         \* the stages of main() that have completed, in order
    in_X,           \* X_mfcc.npy on disk: "missing" | "ok" | "bad_shape"
    in_y,           \* y_labels.npy on disk: [present, data]
    le,             \* the fitted encoder's classes_
    y_cat,          \* the one-hot label matrix
    y_test,         \* the test rows of y_cat
    y_pred_classes, \* np.argmax(model.predict(X_test), axis=1)
    cm,             \* the confusion matrix evaluate_model built
    model_units,    \* units of the classifier's output layer, 0 before it is built
    model_file      \* emotion_cnn_model.keras has been written by this run

scanVars == <<scan_pc, root_exists, ri, visited, metadata>>
mfccVars == <<mfcc_pc, audio, mfcc_out, mfcc_printed>>
buildVars == <<build_pc, df, bi, disk, X, y, file_X, file_y, diag>>
trainVars == <<eval_pc, main_pc, stages, in_X, in_y, le, y_cat, y_test,
               y_pred_classes, cm, model_units, model_file>>
vars == <<scanVars, mfccVars, buildVars, trainVars>>

(***************************************************************************)
(* Bounds                                                                  *)
(***************************************************************************)
MaxFiles == 3       \* files yielded by os.walk in one scan, all roots together
MaxFrames == 176    \* natural MFCC frame count of a recording
MaxSeed == 1        \* distinct recordings of one frame count
MaxRows == 3        \* rows of the metadata table the build loop iterates
MaxN == 3           \* length of the label vector given to load_data alone
MaxPerClass == 5    \* recordings of one emotion in a data set given to main()

(***************************************************************************)
(* Strings as character sequences                                          *)
(***************************************************************************)
Digits == {"0", "1", "2", "3", "4", "5", "6", "7", "8", "9"}

DigitVal(c) ==
    CASE c = "0" -> 0 [] c = "1" -> 1 [] c = "2" -> 2 [] c = "3" -> 3
      [] c = "4" -> 4 [] c = "5" -> 5 [] c = "6" -> 6 [] c = "7" -> 7
      [] c = "8" -> 8 [] c = "9" -> 9

\* str.endswith
EndsWith(s, suf) ==
    /\ Len(s) >= Len(suf)
    /\ SubSeq(s, Len(s) - Len(suf) + 1, Len(s)) = suf

\* str.split(sep) for a one-character separator: always at least one part
RECURSIVE SplitFrom(_, _, _, _, _)
SplitFrom(s, sep, i, cur, acc) ==
    IF i > Len(s) THEN Append(acc, cur)
    ELSE IF s[i] = sep THEN SplitFrom(s, sep, i + 1, <<>>, Append(acc, cur))
    ELSE SplitFrom(s, sep, i + 1, Append(cur, s[i]), acc)

Split(s, sep) == SplitFrom(s, sep, 1, <<>>, <<>>)

\* int(s) raises ValueError unless s is a decimal literal.  The file names
\* drawn below hold digits, letters, "-" and "." only, so the sign,
\* underscore and whitespace forms int() also accepts never occur.
IntParses(s) == Len(s) > 0 /\ \A i \in 1..Len(s) : s[i] \in Digits

RECURSIVE IntValue(_)
IntValue(s) ==
    IF Len(s) = 0 THEN 0
    ELSE 10 * IntValue(SubSeq(s, 1, Len(s) - 1)) + DigitVal(s[Len(s)])

RECURSIVE Join(_, _)
Join(parts, sep) ==
    IF Len(parts) = 0 THEN <<>>
    ELSE IF Len(parts) = 1 THEN parts[1]
    ELSE parts[1] \o <<sep>> \o Join(Tail(parts), sep)

(***************************************************************************)
(* Metadata scan                                                           *)
(***************************************************************************)
root_dirs == <<"input", "audio_speech_actors_01-24">>

emotion_map ==
    (<<"0", "1">> :> "neutral") @@ (<<"0", "2">> :> "calm") @@
    (<<"0", "3">> :> "happy")   @@ (<<"0", "4">> :> "sad") @@
    (<<"0", "5">> :> "angry")   @@ (<<"0", "6">> :> "fearful") @@
    (<<"0", "7">> :> "disgust") @@ (<<"0", "8">> :> "surprised")

\* emotion_map.get(emotion_id, "unknown")
EmotionOf(emotion_id) ==
    IF emotion_id \in DOMAIN emotion_map THEN emotion_map[emotion_id]
    ELSE "unknown"

\* gender = "female" if actor_id % 2 == 0 else "male"
GenderOf(actor_id) == IF actor_id % 2 = 0 THEN "female" ELSE "male"

\* if file.endswith(".wav")
IsWav(file) == EndsWith(file, <<".", "w", "a", "v">>)

\* the mutant of Malformed: only names that are too short are skipped
MalformedOnlyShort(parts) == Len(parts) < 7

\* if len(parts) != 7: continue
Malformed(parts) == Len(parts) # 7

\* parts[6].split(".")[0], the text int() is applied to
ActorText(parts) == Split(parts[7], ".")[1]

\* the dictionary appended to metadata
Record(subdir, file, parts) ==
    LET actor_id == IntValue(ActorText(parts))
    IN  [ filename |-> file,
          filepath |-> [dir |-> subdir, name |-> file],
          emotion  |-> EmotionOf(parts[3]),
          gender   |-> GenderOf(actor_id),
          actor_id |-> actor_id ]

\* The file names a directory may hold: one seven-part .wav name per
\* emotion code of the table and one with a code outside it, an odd actor,
\* names of 1, 6 and 8 parts, a name that is not a .wav, and seven-part names
\* whose actor part is not a number.
Seg == <<"0", "1">>

NameOf(k, code, actor, ext) ==
    Join([i \in 1..k |-> IF i = k THEN actor
                         ELSE IF i = 3 THEN code
                         ELSE Seg], "-") \o ext

Wav == <<".", "w", "a", "v">>

FileNames ==
    { NameOf(7, c, <<"1", "2">>, Wav) : c \in DOMAIN emotion_map }
    \cup { NameOf(7, <<"0", "9">>, <<"1", "2">>, Wav),
           NameOf(7, <<"0", "5">>, <<"0", "7">>, Wav),
           NameOf(7, <<"0", "5">>, <<"x", "x">>, Wav),
           NameOf(7, <<"0", "3">>, <<>>, Wav),
           NameOf(6, <<"0", "3">>, <<"1", "2">>, Wav),
           NameOf(8, <<"0", "3">>, <<"1", "2">>, Wav),
           NameOf(1, <<"0", "3">>, <<"b", "a", "d", "n", "a", "m", "e">>, Wav),
           NameOf(7, <<"0", "3">>, <<"1", "2">>, <<".", "m", "p", "3">>) }

ScanIdle ==
    /\ scan_pc = "idle"
    /\ root_exists = <<>>
    /\ ri = 0
    /\ visited = <<>>
    /\ metadata = <<>>

ScanStart ==
    /\ scan_pc = "walk"
    /\ root_exists \in [1..Len(root_dirs) -> BOOLEAN]
    /\ ri = 1
    /\ visited = <<>>
    /\ metadata = <<>>

\* One iteration of `for file in files` (all sub-directories of a root are
\* one listing here; the record keeps the root as its directory).
ScanFile ==
    /\ scan_pc = "walk"
    /\ ri <= Len(root_dirs)
    /\ root_exists[ri]
    /\ Len(visited) < MaxFiles
    /\ \E file \in FileNames :
          LET parts == Split(file, "-")
          IN  /\ visited' = Append(visited, <<ri, file>>)
              /\ IF ~IsWav(file) \/ Malformed(parts)
                 THEN UNCHANGED <<scan_pc, metadata>>
                 ELSE IF ~IntParses(ActorText(parts))
                 THEN /\ scan_pc' = "raised"
                      /\ UNCHANGED metadata
                 ELSE /\ metadata' =
                            Append(metadata, Record(root_dirs[ri], file, parts))
                      /\ UNCHANGED scan_pc
    /\ UNCHANGED <<root_exists, ri, mfccVars, buildVars, trainVars>>

\* os.walk(root) is exhausted; for a root that is no directory it yields
\* nothing at all, so this is the only step of that root.
ScanNextRoot ==
    /\ scan_pc = "walk"
    /\ ri <= Len(root_dirs)
    /\ ri' = ri + 1
    /\ UNCHANGED <<scan_pc, root_exists, visited, metadata, mfccVars, buildVars, trainVars>>

\* df = pd.DataFrame(metadata)
ScanFinish ==
    /\ scan_pc = "walk"
    /\ ri > Len(root_dirs)
    /\ scan_pc' = "done"
    /\ UNCHANGED <<root_exists, ri, visited, metadata, mfccVars, buildVars, trainVars>>

ScanNext == ScanFile \/ ScanNextRoot \/ ScanFinish

(***************************************************************************)
(* extract_mfcc                                                            *)
(***************************************************************************)
n_mfcc == 40
max_pad_len == 174

\* A recording: whether librosa.load and librosa.feature.mfcc succeed on
\* it, and if so the frame count and the content of what they compute.
Recordings ==
    [ok : BOOLEAN, frames : 0..MaxFrames, seed : 0..MaxSeed]

\* Coefficient r of frame c of a recording: some number, zero included.
Coef(seed, r, c) == ((seed + 3 * r + 5 * c) % 5) - 2

\* librosa.feature.mfcc(y=audio, sr=sr, n_mfcc=n): n rows, one column per
\* frame (row-major, as the array's shape (n, frames)).
ComputedMfcc(a, n) ==
    [r \in 1..n |-> [c \in 1..a.frames |-> Coef(a.seed, r, c)]]

Zeros(k) == [c \in 1..k |-> 0]

\* the mutant of PadOrTruncate: pads on the left and keeps the last frames
PadOrTruncateLeft(mfcc, width) ==
    [r \in 1..Len(mfcc) |->
        IF Len(mfcc[r]) < width
        THEN Zeros(width - Len(mfcc[r])) \o mfcc[r]
        ELSE SubSeq(mfcc[r], Len(mfcc[r]) - width + 1, Len(mfcc[r]))]

\* np.pad(mfcc, ((0, 0), (0, pad_width)), mode='constant') when
\* mfcc.shape[1] < max_pad_len, else mfcc[:, :max_pad_len]
PadOrTruncate(mfcc, width) ==
    [r \in 1..Len(mfcc) |->
        IF Len(mfcc[r]) < width
        THEN mfcc[r] \o Zeros(width - Len(mfcc[r]))
        ELSE SubSeq(mfcc[r], 1, width)]

\* Python's None, as the matrix of no rows (a returned matrix has n_mfcc).
None == <<>>

\* the value extract_mfcc(filepath) returns, defaults for the other arguments
extract_mfcc(a) ==
    IF a.ok THEN PadOrTruncate(ComputedMfcc(a, n_mfcc), max_pad_len)
    ELSE None

MfccIdle ==
    /\ mfcc_pc = "idle"
    /\ audio = [ok |-> FALSE, frames |-> 0, seed |-> 0]
    /\ mfcc_out = None
    /\ mfcc_printed = 0

MfccStart ==
    /\ mfcc_pc = "call"
    /\ audio \in Recordings
    /\ mfcc_out = None
    /\ mfcc_printed = 0

\* One call: the body of try, or the except branch's print and return None.
ExtractCall ==
    /\ mfcc_pc = "call"
    /\ mfcc_out' = extract_mfcc(audio)
    /\ mfcc_printed' = IF audio.ok THEN mfcc_printed ELSE mfcc_printed + 1
    /\ mfcc_pc' = "returned"
    /\ UNCHANGED <<audio, scanVars, buildVars, trainVars>>

MfccNext == ExtractCall

(***************************************************************************)
(* Dataset build loop                                                      *)
(***************************************************************************)
\* Rows the scan produces for four recordings under the first root.
RowOf(file) == Record(root_dirs[1], file, Split(file, "-"))

BuildRows ==
    { RowOf(NameOf(7, <<"0", "3">>, <<"1", "2">>, Wav)),
      RowOf(NameOf(7, <<"0", "5">>, <<"0", "7">>, Wav)),
      RowOf(NameOf(7, <<"0", "5">>, <<"1", "2">>, Wav)),
      RowOf(NameOf(7, <<"0", "9">>, <<"1", "2">>, Wav)) }

\* What a row's file may hold: nothing librosa can read, a recording
\* shorter than max_pad_len frames, one longer.
BuildRecordings ==
    { [ok |-> FALSE, frames |-> 0, seed |-> 0],
      [ok |-> TRUE, frames |-> 2, seed |-> 0],
      [ok |-> TRUE, frames |-> 175, seed |-> 1] }

\* tables of distinct rows: two files of one walk never share a path
Tables ==
    UNION { { t \in [1..n -> BuildRows] :
                \A i, j \in 1..n : i # j => t[i] # t[j] } : n \in 0..MaxRows }

NotWritten == [written |-> FALSE, data |-> <<>>]

\* the mutant of CollectX: the returned value is appended, None included
CollectXAlways(list, mfcc) == Append(list, mfcc)

\* if mfcc is not None: X.append(mfcc)
CollectX(list, mfcc) == IF mfcc # None THEN Append(list, mfcc) ELSE list

\* the mutant of CollectY: the label is appended whatever extract_mfcc returned
CollectYAlways(list, mfcc, emotion) == Append(list, emotion)

\* if mfcc is not None: y.append(row['emotion'])
CollectY(list, mfcc, emotion) ==
    IF mfcc # None THEN Append(list, emotion) ELSE list

BuildIdle ==
    /\ build_pc = "idle"
    /\ df = <<>>
    /\ bi = 0
    /\ disk = <<>>
    /\ X = <<>>
    /\ y = <<>>
    /\ file_X = NotWritten
    /\ file_y = NotWritten
    /\ diag = <<>>

BuildStart ==
    /\ build_pc = "loop"
    /\ df \in Tables
    /\ bi = 1
    /\ disk = <<>>
    /\ X = <<>>
    /\ y = <<>>
    /\ file_X = NotWritten
    /\ file_y = NotWritten
    /\ diag = <<>>

\* One iteration of `for _, row in df.iterrows()`; extract_mfcc prints its
\* line when it catches the exception.
BuildRow ==
    /\ build_pc = "loop"
    /\ bi <= Len(df)
    /\ \E a \in BuildRecordings :
          LET mfcc == extract_mfcc(a)
          IN  /\ disk' = Append(disk, a)
              /\ diag' = IF a.ok THEN diag
                         ELSE Append(diag, df[bi].filepath)
              /\ X' = CollectX(X, mfcc)
              /\ y' = CollectY(y, mfcc, df[bi].emotion)
    /\ bi' = bi + 1
    /\ UNCHANGED <<build_pc, df, file_X, file_y, scanVars, mfccVars, trainVars>>

\* X = np.array(X); y = np.array(y); np.save(...); np.save(...)
BuildSave ==
    /\ build_pc = "loop"
    /\ bi > Len(df)
    /\ file_X' = [written |-> TRUE, data |-> X]
    /\ file_y' = [written |-> TRUE, data |-> y]
    /\ build_pc' = "saved"
    /\ UNCHANGED <<df, bi, disk, X, y, diag, scanVars, mfccVars, trainVars>>

BuildNext == BuildRow \/ BuildSave

(***************************************************************************)
(* Training script: label encoding                                         *)
(***************************************************************************)
\* The nine labels the extraction writes, in the order np.unique sorts
\* them (LabelEncoder.fit): code-point order of the strings.
LabelOrder ==
    <<"angry", "calm", "disgust", "fearful", "happy", "neutral", "sad",
      "surprised", "unknown">>

\* le.classes_ after le.fit(y): the distinct labels of y, sorted
Classes(yv) ==
    SelectSeq(LabelOrder, LAMBDA l : \E i \in 1..Len(yv) : yv[i] = l)

\* the mutant of IndexOf: indices counted from 1
IndexOfFromOne(classes, l) == CHOOSE k \in 1..Len(classes) : classes[k] = l

\* le.transform of one label: its position in classes_, counted from 0
IndexOf(classes, l) == (CHOOSE k \in 1..Len(classes) : classes[k] = l) - 1

\* y_encoded = le.fit_transform(y)
Encode(classes, yv) == [i \in 1..Len(yv) |-> IndexOf(classes, yv[i])]

\* np.max of a vector that is not empty
SeqMax(q) ==
    CHOOSE m \in {q[i] : i \in 1..Len(q)} : \A i \in 1..Len(q) : q[i] <= m

\* to_categorical(y_encoded): num_classes = max + 1 columns, column j + 1
\* standing for class j.  (np.max raises on an empty vector: see LoadFails.)
to_categorical(enc) ==
    LET num_classes == SeqMax(enc) + 1
    IN  [i \in 1..Len(enc) |->
            [j \in 1..num_classes |-> IF j - 1 = enc[i] THEN 1 ELSE 0]]

\* np.argmax of one row: the first position of the largest entry, from 0
ArgMax(row) ==
    (CHOOSE j \in 1..Len(row) :
        /\ \A k \in 1..Len(row) : row[k] <= row[j]
        /\ \A k \in 1..(j - 1) : row[k] < row[j]) - 1

\* load_data raises: np.load on a missing file, np.max in to_categorical on
\* an empty label vector
LoadFails(x, yfile) ==
    x = "missing" \/ ~yfile.present \/ Len(yfile.data) = 0

(***************************************************************************)
(* Training script: evaluate_model                                         *)
(***************************************************************************)
RECURSIVE SortedSeq(_)
SortedSeq(S) ==
    IF S = {} THEN <<>>
    ELSE LET m == CHOOSE a \in S : \A b \in S : a <= b
         IN  <<m>> \o SortedSeq(S \ {m})

\* sklearn's unique_labels(y_true, y_pred), the labels confusion_matrix
\* and classification_report use when no labels= argument is passed
UniqueLabels(t, p) ==
    SortedSeq({t[i] : i \in 1..Len(t)} \cup {p[i] : i \in 1..Len(p)})

\* cm = confusion_matrix(y_true_classes, y_pred_classes)
confusion_matrix(t, p) ==
    LET labels == UniqueLabels(t, p)
    IN  [a \in 1..Len(labels) |->
            [b \in 1..Len(labels) |->
                Cardinality({i \in 1..Len(t) :
                                t[i] = labels[a] /\ p[i] = labels[b]})]]

\* classification_report(y_true, y_pred, target_names=labels) raises
\* ValueError when the classes it finds are not as many as target_names
ReportRaises(t, p, target_names) ==
    Len(UniqueLabels(t, p)) # Len(target_names)

\* y_true_classes = np.argmax(y_test, axis=1)
TrueClasses(rows) == [i \in 1..Len(rows) |-> ArgMax(rows[i])]

\* The whole of evaluate_model that the claims read: the matrix it builds
\* and whether classification_report raised.
evaluate_model(rows, pred, classes) ==
    LET t == TrueClasses(rows)
    IN  [cm |-> confusion_matrix(t, pred),
         raised |-> ReportRaises(t, pred, classes)]

TrainIdle ==
    /\ eval_pc = "idle"
    /\ main_pc = "idle"
    /\ stages = <<>>
    /\ in_X = "missing"
    /\ in_y = [present |-> FALSE, data |-> <<>>]
    /\ le = <<>>
    /\ y_cat = <<>>
    /\ y_test = <<>>
    /\ y_pred_classes = <<>>
    /\ cm = <<>>
    /\ model_units = 0
    /\ model_file = FALSE

\* label vectors given to load_data on its own
EvalLabels == {"happy", "angry", "unknown"}

LabelVectors == UNION { [1..n -> EvalLabels] : n \in 0..MaxN }

EvalStart ==
    /\ eval_pc = "load"
    /\ main_pc = "idle"
    /\ stages = <<>>
    /\ in_X = "ok"
    /\ in_y \in [present : {TRUE}, data : LabelVectors]
    /\ le = <<>>
    /\ y_cat = <<>>
    /\ y_test = <<>>
    /\ y_pred_classes = <<>>
    /\ cm = <<>>
    /\ model_units = 0
    /\ model_file = FALSE

\* load_data, the label half: le, y_encoded, y_cat
EvalLoad ==
    /\ eval_pc = "load"
    /\ IF LoadFails(in_X, in_y)
       THEN /\ eval_pc' = "load_raised"
            /\ UNCHANGED <<le, y_cat>>
       ELSE /\ le' = Classes(in_y.data)
            /\ y_cat' = to_categorical(Encode(Classes(in_y.data), in_y.data))
            /\ eval_pc' = "evaluate"
    /\ UNCHANGED <<main_pc, stages, in_X, in_y, y_test, y_pred_classes, cm,
                   model_units, model_file, scanVars, mfccVars, buildVars>>

\* evaluate_model on any test split that is not empty (rows of y_cat, in
\* sample order) and any predicted class per test sample among the
\* encoder's classes
EvalEvaluate ==
    /\ eval_pc = "evaluate"
    /\ \E idx \in (SUBSET (1..Len(y_cat))) \ {{}} :
          LET rows == [k \in 1..Cardinality(idx) |-> y_cat[SortedSeq(idx)[k]]]
          IN  \E pred \in [1..Len(rows) -> 0..(Len(le) - 1)] :
                 LET out == evaluate_model(rows, pred, le)
                 IN  /\ y_test' = rows
                     /\ y_pred_classes' = pred
                     /\ cm' = out.cm
                     /\ eval_pc' = IF out.raised THEN "raised" ELSE "evaluated"
    /\ UNCHANGED <<main_pc, stages, in_X, in_y, le, y_cat, model_units,
                   model_file, scanVars, mfccVars, buildVars>>

EvalNext == EvalLoad \/ EvalEvaluate

(***************************************************************************)
(* Training script: main                                                   *)
(***************************************************************************)
num_classes == 8    \* build_model's default, the one main() builds with

TableLabels ==
    <<"neutral", "calm", "happy", "sad", "angry", "fearful", "disgust",
      "surprised", "unknown">>

\* A data set of the first k labels: m recordings of each, in turn, and 2m
\* more of the first label when it is heavy.
Dataset(k, m, heavy) ==
    [i \in 1..(k * m) |-> TableLabels[((i - 1) % k) + 1]]
    \o [i \in 1..(IF heavy THEN 2 * m ELSE 0) |-> TableLabels[1]]

MainDatasets ==
    { Dataset(k, m, heavy) :
        k \in {7, 8, 9}, m \in 0..MaxPerClass, heavy \in BOOLEAN }

Width(rows) == Len(rows[1])

OneHot(c, w) == [j \in 1..w |-> IF j - 1 = c THEN 1 ELSE 0]

RECURSIVE SumTo(_, _)
SumTo(f, n) == IF n < 0 THEN 0 ELSE f[n] + SumTo(f, n - 1)

\* train_test_split(test_size=0.2): n_test = ceil(0.2 * n), the rest is
\* train.  (The float product rounds up to the integer ceiling of n / 5 for
\* every n below 80, the sizes met here.)
TestSize(n) == (n + 4) \div 5

ClassCount(rows) ==
    [c \in 0..(Width(rows) - 1) |->
        Cardinality({i \in 1..Len(rows) : ArgMax(rows[i]) = c})]

\* StratifiedShuffleSplit raises ValueError: no training sample, a class of
\* one member, or fewer train or test samples than classes
SplitFails(rows) ==
    LET n == Len(rows)
        n_test == TestSize(n)
        n_train == n - n_test
        count == ClassCount(rows)
    IN  \/ n_train = 0
        \/ \E c \in DOMAIN count : count[c] < 2
        \/ n_train < Width(rows)
        \/ n_test < Width(rows)

\* The test samples per class a stratified split may give.  The train
\* share of class c is floor(count * n_train / n), plus one for the classes
\* of largest remainder until n_train is reached, ties broken by the random
\* state; the test split takes what is left of each class.
TestCounts(rows) ==
    LET n == Len(rows)
        n_train == n - TestSize(n)
        count == ClassCount(rows)
        Cs == DOMAIN count
        floored == [c \in Cs |-> (count[c] * n_train) \div n]
        rem == [c \in Cs |-> (count[c] * n_train) % n]
        need == n_train - SumTo(floored, Width(rows) - 1)
    IN  { [c \in Cs |-> count[c] - floored[c] - (IF c \in U THEN 1 ELSE 0)] :
            U \in { V \in SUBSET Cs :
                      /\ Cardinality(V) = need
                      /\ \A c \in V : \A d \in Cs \ V : rem[c] >= rem[d] } }

\* y_test for given test counts: the rows class by class (the samples of a
\* class are alike here, so the shuffled order is not kept)
RECURSIVE TestRows(_, _, _)
TestRows(t, c, w) ==
    IF c >= w THEN <<>>
    ELSE [i \in 1..t[c] |-> OneHot(c, w)] \o TestRows(t, c + 1, w)

\* the mutant of StageAfter: the model is saved before evaluate_model runs
StageAfterSaveEarly(stage) ==
    CASE stage = "load_data" -> "split_data"
      [] stage = "split_data" -> "build_model"
      [] stage = "build_model" -> "summary"
      [] stage = "summary" -> "fit"
      [] stage = "fit" -> "evaluate"
      [] stage = "evaluate" -> "plot_training_history"
      [] stage = "plot_training_history" -> "save"
      [] stage = "save" -> "evaluate_model"
      [] stage = "evaluate_model" -> "finished"

\* the statement of main() that follows each statement
StageAfter(stage) ==
    CASE stage = "load_data" -> "split_data"
      [] stage = "split_data" -> "build_model"
      [] stage = "build_model" -> "summary"
      [] stage = "summary" -> "fit"
      [] stage = "fit" -> "evaluate"
      [] stage = "evaluate" -> "plot_training_history"
      [] stage = "plot_training_history" -> "evaluate_model"
      [] stage = "evaluate_model" -> "save"
      [] stage = "save" -> "finished"

\* a statement of main() returned: the next one runs
Completed(stage) ==
    /\ stages' = Append(stages, stage)
    /\ main_pc' = StageAfter(stage)

\* a statement of main() raised: nothing catches it, main() is left
Raised ==
    /\ main_pc' = "halted"
    /\ UNCHANGED stages

MainStart ==
    /\ eval_pc = "idle"
    /\ main_pc = "load_data"
    /\ stages = <<>>
    /\ in_X \in {"missing", "ok", "bad_shape"}
    /\ in_y \in [present : {TRUE}, data : MainDatasets]
                  \cup {[present |-> FALSE, data |-> <<>>]}
    /\ le = <<>>
    /\ y_cat = <<>>
    /\ y_test = <<>>
    /\ y_pred_classes = <<>>
    /\ cm = <<>>
    /\ model_units = 0
    /\ model_file = FALSE

\* X, y_cat, le = load_data()
MainLoad ==
    /\ main_pc = "load_data"
    /\ IF LoadFails(in_X, in_y)
       THEN /\ Raised
            /\ UNCHANGED <<le, y_cat>>
       ELSE /\ le' = Classes(in_y.data)
            /\ y_cat' = to_categorical(Encode(Classes(in_y.data), in_y.data))
            /\ Completed("load_data")
    /\ UNCHANGED <<eval_pc, in_X, in_y, y_test, y_pred_classes, cm,
                   model_units, model_file, scanVars, mfccVars, buildVars>>

\* X_train, X_test, y_train, y_test = split_data(X, y_cat)
MainSplit ==
    /\ main_pc = "split_data"
    /\ IF SplitFails(y_cat)
       THEN /\ Raised
            /\ UNCHANGED y_test
       ELSE /\ \E t \in TestCounts(y_cat) :
                  y_test' = TestRows(t, 0, Width(y_cat))
            /\ Completed("split_data")
    /\ UNCHANGED <<eval_pc, in_X, in_y, le, y_cat, y_pred_classes, cm,
                   model_units, model_file, scanVars, mfccVars, buildVars>>

\* model = build_model()
MainBuild ==
    /\ main_pc = "build_model"
    /\ model_units' = num_classes
    /\ Completed("build_model")
    /\ UNCHANGED <<eval_pc, in_X, in_y, le, y_cat, y_test, y_pred_classes, cm,
                   model_file, scanVars, mfccVars, buildVars>>

\* model.summary()
MainSummary ==
    /\ main_pc = "summary"
    /\ Completed("summary")
    /\ UNCHANGED <<eval_pc, in_X, in_y, le, y_cat, y_test, y_pred_classes, cm,
                   model_units, model_file, scanVars, mfccVars, buildVars>>

\* history = model.fit(...): Keras raises when the samples are not of the
\* declared input shape or the targets are not as wide as the output layer
MainFit ==
    /\ main_pc = "fit"
    /\ IF in_X = "bad_shape" \/ Width(y_cat) # model_units
       THEN Raised
       ELSE Completed("fit")
    /\ UNCHANGED <<eval_pc, in_X, in_y, le, y_cat, y_test, y_pred_classes, cm,
                   model_units, model_file, scanVars, mfccVars, buildVars>>

\* test_loss, test_acc = model.evaluate(X_test, y_test); print(...)
MainTestEval ==
    /\ main_pc = "evaluate"
    /\ Completed("evaluate")
    /\ UNCHANGED <<eval_pc, in_X, in_y, le, y_cat, y_test, y_pred_classes, cm,
                   model_units, model_file, scanVars, mfccVars, buildVars>>

\* plot_training_history(history)
MainPlot ==
    /\ main_pc = "plot_training_history"
    /\ Completed("plot_training_history")
    /\ UNCHANGED <<eval_pc, in_X, in_y, le, y_cat, y_test, y_pred_classes, cm,
                   model_units, model_file, scanVars, mfccVars, buildVars>>

\* The predictions drawn for main(): every sample right, or one class for
\* all samples.
Predictions(rows, units) ==
    {TrueClasses(rows)} \cup { [i \in 1..Len(rows) |-> k] : k \in 0..(units - 1) }

\* evaluate_model(model, X_test, y_test, le)
MainEvaluate ==
    /\ main_pc = "evaluate_model"
    /\ \E pred \in Predictions(y_test, model_units) :
          LET out == evaluate_model(y_test, pred, le)
          IN  /\ y_pred_classes' = pred
              /\ cm' = out.cm
              /\ IF out.raised THEN Raised ELSE Completed("evaluate_model")
    /\ UNCHANGED <<eval_pc, in_X, in_y, le, y_cat, y_test, model_units,
                   model_file, scanVars, mfccVars, buildVars>>

\* model.save("emotion_cnn_model.keras")
MainSave ==
    /\ main_pc = "save"
    /\ model_file' = TRUE
    /\ Completed("save")
    /\ UNCHANGED <<eval_pc, in_X, in_y, le, y_cat, y_test, y_pred_classes, cm,
                   model_units, scanVars, mfccVars, buildVars>>

MainNext ==
    \/ MainLoad \/ MainSplit \/ MainBuild \/ MainSummary \/ MainFit
    \/ MainTestEval \/ MainPlot \/ MainEvaluate \/ MainSave

(***************************************************************************)
(* Specifications                                                          *)
(***************************************************************************)
ScanInit == ScanStart /\ MfccIdle /\ BuildIdle /\ TrainIdle
SpecScan == ScanInit /\ [][ScanNext]_vars

MfccInit == MfccStart /\ ScanIdle /\ BuildIdle /\ TrainIdle
SpecMfcc == MfccInit /\ [][MfccNext]_vars

BuildInit == BuildStart /\ ScanIdle /\ MfccIdle /\ TrainIdle
SpecBuild == BuildInit /\ [][BuildNext]_vars

EvalInit == EvalStart /\ ScanIdle /\ MfccIdle /\ BuildIdle
SpecEval == EvalInit /\ [][EvalNext]_vars

MainInit == MainStart /\ ScanIdle /\ MfccIdle /\ BuildIdle
SpecMain == MainInit /\ [][MainNext]_vars

(***************************************************************************)
(* Claims about the metadata scan                                          *)
(***************************************************************************)
\* the label the code table of the filename contract gives a code
TableLabel(code) ==
    CASE code = <<"0", "1">> -> "neutral"  [] code = <<"0", "2">> -> "calm"
      [] code = <<"0", "3">> -> "happy"    [] code = <<"0", "4">> -> "sad"
      [] code = <<"0", "5">> -> "angry"    [] code = <<"0", "6">> -> "fearful"
      [] code = <<"0", "7">> -> "disgust"  [] code = <<"0", "8">> -> "surprised"
      [] OTHER -> "unknown"

SevenPartWav(file) == IsWav(file) /\ Len(Split(file, "-")) = 7

OtherPartWav(file) == IsWav(file) /\ Len(Split(file, "-")) # 7

\* C2: every .wav name of exactly 7 hyphen-delimited parts that the scan has
\* met has its own metadata record, in the order met, whose emotion is the
\* table's label for the 3rd part ("unknown" for a code outside the table).
C2_SevenPartNameRecorded ==
    LET met == SelectSeq(visited, LAMBDA v : SevenPartWav(v[2]))
    IN  /\ Len(metadata) = Len(met)
        /\ \A i \in 1..Len(met) :
              /\ i <= Len(metadata)
              /\ metadata[i].filename = met[i][2]
              /\ metadata[i].emotion = TableLabel(Split(met[i][2], "-")[3])

\* C3: the scan has no failure mode: it never raises, whatever the roots
\* and the file names under them.
C3_ScanNeverRaises == scan_pc # "raised"

\* C4: a step of the scan that meets a .wav name of fewer or more than 7
\* parts leaves the metadata table as it was and raises nothing: the scan
\* goes on with the next file.
C4_MalformedNameSkipped ==
    [][ ( /\ Len(visited') = Len(visited) + 1
          /\ OtherPartWav(visited'[Len(visited')][2]) )
        => (metadata' = metadata /\ scan_pc' = "walk") ]_vars

\* a name of the wrong part count was met, a later name was recorded after
\* it, and the scan ran to its end
C4_Witness ==
    /\ scan_pc = "done"
    /\ \E i, j \in 1..Len(visited) :
          /\ i < j
          /\ OtherPartWav(visited[i][2])
          /\ \E k \in 1..Len(metadata) : metadata[k].filename = visited[j][2]

C1_WitnessExact ==
    mfcc_pc = "returned" /\ mfcc_out # None /\ audio.frames = 174

C1_WitnessLong ==
    mfcc_pc = "returned" /\ mfcc_out # None /\ audio.frames = 175

(***************************************************************************)
(* Claims about the dataset build loop                                     *)
(***************************************************************************)
\* the rows among the first k whose extraction succeeded / failed, in order
RowsWhere(k, wanted) ==
    SelectSeq([i \in 1..k |-> i], LAMBDA i : disk[i].ok = wanted)

\* C5: with N rows that extract and M rows that fail, in any order, the run
\* always has a next step until both files are written; then every row was
\* tried, both files hold exactly N rows, and there is exactly one
\* diagnostic line per failing file, naming it.
C5_FaultTolerantBuild ==
    LET good == RowsWhere(Len(disk), TRUE)
        bad  == RowsWhere(Len(disk), FALSE)
    IN  /\ build_pc = "loop" => ENABLED BuildNext
        /\ build_pc = "saved" =>
              /\ Len(disk) = Len(df)
              /\ file_X.written /\ file_y.written
              /\ Len(file_X.data) = Len(good)
              /\ Len(file_y.data) = Len(good)
              /\ Len(diag) = Len(bad)
              /\ \A k \in 1..Len(bad) : diag[k] = df[bad[k]].filepath

\* both files written after one row extracted and two rows failed around it
C5_Witness ==
    /\ build_pc = "saved"
    /\ Len(disk) = 3
    /\ ~disk[1].ok /\ disk[2].ok /\ ~disk[3].ok
    /\ Len(file_X.data) = 1 /\ Len(diag) = 2

\* C10: after every iteration X and y have the same length, entry k of each
\* comes from the k-th row that extracted (the matrix of its recording, the
\* emotion of its row), and what is saved is exactly these lists.
C10_ListsAligned ==
    LET good == RowsWhere(Len(disk), TRUE)
    IN  /\ Len(X) = Len(y)
        /\ Len(X) = Len(good)
        /\ \A k \in 1..Len(good) :
              /\ k <= Len(X) /\ k <= Len(y)
              /\ X[k] = extract_mfcc(disk[good[k]])
              /\ y[k] = df[good[k]].emotion
        /\ build_pc = "saved" => (file_X.data = X /\ file_y.data = y)

\* a failing row between two rows of different emotions that extracted
C10_Witness ==
    /\ build_pc = "saved"
    /\ Len(disk) = 3
    /\ disk[1].ok /\ ~disk[2].ok /\ disk[3].ok
    /\ df[1].emotion # df[3].emotion
    /\ file_y.data = <<df[1].emotion, df[3].emotion>>

(***************************************************************************)
(* Claims about the training script                                        *)
(***************************************************************************)
Distinct(q) == {q[i] : i \in 1..Len(q)}

\* C6: once main() has built the classifier, its output layer has as many
\* units as there are distinct labels in y_labels.npy, which is the width of
\* the one-hot matrix; and a data set of nine labels, "unknown" among them,
\* that has been split is not halted by a fatal failure.
C6_OutputWidthIsLabelCount ==
    /\ model_units # 0 =>
          /\ model_units = Cardinality(Distinct(in_y.data))
          /\ model_units = Width(y_cat)
    /\ ( /\ "unknown" \in Distinct(in_y.data)
         /\ Cardinality(Distinct(in_y.data)) = 9
         /\ in_X = "ok"
         /\ Len(stages) >= 2 ) => main_pc # "halted"

\* C7: after load_data's encoding, the one-hot matrix has one row per
\* sample and one column per distinct label, every row holds a single 1
\* among 0s, the class list is in sorted label order, and the class list's
\* entry at the argmax of row i is label i of the input.
C7_LabelRoundTrip ==
    eval_pc \in {"evaluate", "evaluated", "raised"} =>
        LET data == in_y.data
            Rank(l) == CHOOSE k \in 1..Len(LabelOrder) : LabelOrder[k] = l
        IN  /\ Len(y_cat) = Len(data)
            /\ Len(le) = Cardinality(Distinct(data))
            /\ \A a, b \in 1..Len(le) : a < b => Rank(le[a]) < Rank(le[b])
            /\ \A i \in 1..Len(data) :
                  /\ Len(y_cat[i]) = Cardinality(Distinct(data))
                  /\ \A j \in 1..Len(y_cat[i]) : y_cat[i][j] \in {0, 1}
                  /\ Cardinality({j \in 1..Len(y_cat[i]) : y_cat[i][j] = 1}) = 1
                  /\ le[ArgMax(y_cat[i]) + 1] = data[i]

\* labels met in an order that is not their sorted order, encoded
C7_Witness ==
    /\ eval_pc = "evaluate"
    /\ in_y.data = <<"unknown", "angry", "unknown">>
    /\ y_cat = <<(<<0, 1>>), (<<1, 0>>), (<<0, 1>>)>>

\* C8: when evaluate_model is done, the classification report was printed
\* without error and the confusion matrix has one row and one column per
\* class of the encoder, cell (t, p) counting the test samples of true class
\* t predicted p, each row summing to the count of its true class.
C8_MatrixOverVocabulary ==
    eval_pc \in {"evaluated", "raised"} =>
        LET t == TrueClasses(y_test)
            n == Len(le)
        IN  /\ eval_pc = "evaluated"
            /\ Len(cm) = n
            /\ \A a \in 1..Len(cm) : Len(cm[a]) = n
            /\ \A a, b \in 1..n :
                  cm[a][b] = Cardinality({i \in 1..Len(t) :
                                 t[i] = a - 1 /\ y_pred_classes[i] = b - 1})
            /\ \A a \in 1..n :
                  SumTo([b \in 0..(n - 1) |-> cm[a][b + 1]], n - 1)
                      = Cardinality({i \in 1..Len(t) : t[i] = a - 1})

\* the order of the stages of main() the pipeline is described by
ClaimedOrder ==
    <<"load_data", "split_data", "build_model", "summary", "fit", "evaluate",
      "plot_training_history", "evaluate_model", "save">>

IsPrefix(a, b) == Len(a) <= Len(b) /\ a = SubSeq(b, 1, Len(a))

\* C9: the stages completed so far are a prefix of the described order, and
\* the stage about to run is the next of it; the model file exists only when
\* all nine stages have completed; a run halted by a failure has written no
\* model file and takes no further step.
C9_StagesInOrder ==
    /\ IsPrefix(stages, ClaimedOrder)
    /\ main_pc \notin {"halted", "finished"} =>
          (Len(stages) < Len(ClaimedOrder)
              /\ main_pc = ClaimedOrder[Len(stages) + 1])
    /\ model_file => stages = ClaimedOrder
    /\ main_pc = "finished" => (stages = ClaimedOrder /\ model_file)
    /\ main_pc = "halted" => (~model_file /\ ~ENABLED MainNext)

\* a run that went through all nine stages and wrote the model file
C9_Witness ==
    main_pc = "finished" /\ model_file /\ Len(stages) = 9

\* a run that was halted by evaluate_model after training
C9_WitnessHalted ==
    main_pc = "halted" /\ Len(stages) = 7 /\ ~model_file

=============================================================================
